---------------------------- MODULE Spec2Model ----------------------------
(***************************************************************************)
(* A model of geometric_shapes' shape_operations.cpp: mesh construction    *)
(* from a triangle soup or from vertices plus indices, the conversion of   *)
(* shapes to and from shape messages, and the plain-text save / load.      *)
(*                                                                         *)
(* A double is modelled by the integer it holds (every value used is an    *)
(* integer a double represents exactly).  A Shape* is a record with a      *)
(* "type" field; the null pointer is the record NULL.                      *)
(***************************************************************************)
EXTENDS Integers, Sequences, FiniteSets, TLC

(***************************************************************************)
(* Bounds of the model.                                                    *)
(***************************************************************************)
\* the longest triangle soup passed to createMeshFromVertices(source)
MaxSoupLen == 6
\* the most vertices, and the longest index vector, passed to
\* createMeshFromVertices(vertices, triangles)
MaxVerts == 2
MaxIdxLen == 3
\* the doubles a caller gives a primitive: 0..MaxValue, and one value of
\* more significant digits than a stream prints
MaxValue == 1
BigValue == 1234567
\* the most tokens after the first in a text a caller writes
MaxFields == 5

\* the points a caller may pass: four corners of the unit cube, among which
\* some pairs differ in x, some agree in x and differ in y, and some agree in
\* x and y and differ in z
Points == {<<0, 0, 0>>, <<0, 0, 1>>, <<0, 1, 0>>, <<1, 0, 0>>}

\* the sequences over S of length lo..hi
SeqsOf(S, lo, hi) == UNION {[1..n -> S] : n \in lo..hi}

\* what an uninitialised unsigned int may hold: an id the loop also assigns,
\* or a value it never assigns
JunkIndex == {0, 3 * MaxSoupLen}

NULL == [type |-> "NULL"]

(***************************************************************************)
(* detail::LocalVertexType and its two orderings.                          *)
(***************************************************************************)
\* LocalVertexType(const Eigen::Vector3d &v): x, y, z are set, index is not
LocalVertexType(v, uninit) == [x |-> v[1], y |-> v[2], z |-> v[3], index |-> uninit]

ltLocalVertexValue(p1, p2) ==
    IF p1.x < p2.x THEN TRUE
    ELSE IF p1.x > p2.x THEN FALSE
    ELSE IF p1.y < p2.y THEN TRUE
    ELSE IF p1.y > p2.y THEN FALSE
    ELSE IF p1.z < p2.z THEN TRUE
    ELSE FALSE

ltLocalVertexIndex(p1, p2) == p1.index < p2.index

(***************************************************************************)
(* std::set<LocalVertexType, ltLocalVertexValue>: the elements in the      *)
(* order of the comparator, as a sequence (the order begin()..end() walks).*)
(***************************************************************************)
\* a comparator that also tells vertices of equal value apart by their index
ValueThenIndex(p1, p2) ==
    ltLocalVertexValue(p1, p2)
        \/ (~ltLocalVertexValue(p2, p1) /\ ltLocalVertexIndex(p1, p2))

\* the comparator the set is declared with
setCompare(p1, p2) == ltLocalVertexValue(p1, p2)

\* lower_bound: the first position whose element is not less than vt
\* (Len + 1 when there is none)
setLowerBound(s, vt) ==
    LET notLess == {i \in 1..Len(s) : ~setCompare(s[i], vt)}
    IN IF notLess = {} THEN Len(s) + 1
       ELSE CHOOSE i \in notLess : \A j \in notLess : i <= j

\* a find that takes the lower bound for a match without comparing back
setFindLowerBoundOnly(s, vt) ==
    LET lb == setLowerBound(s, vt)
    IN IF lb <= Len(s) THEN lb ELSE 0

\* set::find: the position of the element equivalent to vt, 0 for end()
setFind(s, vt) ==
    LET lb == setLowerBound(s, vt)
    IN IF lb <= Len(s) /\ ~setCompare(vt, s[lb]) THEN lb ELSE 0

\* set::insert of an element find() did not find
setInsert(s, vt) ==
    LET lb == setLowerBound(s, vt)
    IN SubSeq(s, 1, lb - 1) \o <<vt>> \o SubSeq(s, lb, Len(s))

(***************************************************************************)
(* std::sort(vt.begin(), vt.end(), ltLocalVertexIndex()).                  *)
(***************************************************************************)
RECURSIVE insertSorted(_, _)
insertSorted(s, e) ==
    IF s = <<>> THEN <<e>>
    ELSE IF ltLocalVertexIndex(e, Head(s)) THEN <<e>> \o s
    ELSE <<Head(s)>> \o insertSorted(Tail(s), e)

\* the copy of the set left in the set's own (value) order
unsortedCopy(s) == s

RECURSIVE sortByIndex(_)
sortByIndex(s) ==
    IF s = <<>> THEN <<>>
    ELSE insertSorted(sortByIndex(Tail(s)), Head(s))

(***************************************************************************)
(* Mesh(v_count, t_count): the arrays are allocated and not initialised.   *)
(* fillD and fillU stand for what the fresh arrays hold.                   *)
(***************************************************************************)
Mesh(v_count, t_count, fillD, fillU) ==
    [type |-> "MESH",
     vertex_count |-> v_count,
     triangle_count |-> t_count,
     vertices |-> [i \in 1..(3 * v_count) |-> fillD],
     triangles |-> [i \in 1..(3 * t_count) |-> fillU]]

\* x, y, z of each element of a sequence of points or vertices, interleaved
RECURSIVE flattenXYZ(_)
flattenXYZ(vt) ==
    IF vt = <<>> THEN <<>>
    ELSE <<Head(vt).x, Head(vt).y, Head(vt).z>> \o flattenXYZ(Tail(vt))

(***************************************************************************)
(* createMeshFromVertices(const EigenSTL::vector_Vector3d &source)         *)
(***************************************************************************)
\* a block that forgets "vt.index = vertices.size()" before the insert
lookupKeepsUninit(st, v, uninit) ==
    LET vt == LocalVertexType(v, uninit)
        p == setFind(st.vertices, vt)
    IN IF p = 0
       THEN [vertices |-> setInsert(st.vertices, vt),
             triangles |-> Append(st.triangles, vt.index)]
       ELSE [vertices |-> st.vertices,
             triangles |-> Append(st.triangles, st.vertices[p].index)]

\* a block that numbers the vertices from 1: "vt.index = vertices.size() + 1"
lookupIdFromOne(st, v, uninit) ==
    LET vt == LocalVertexType(v, uninit)
        p == setFind(st.vertices, vt)
    IN IF p = 0
       THEN LET nv == [vt EXCEPT !.index = Len(st.vertices) + 1]
            IN [vertices |-> setInsert(st.vertices, nv),
                triangles |-> Append(st.triangles, nv.index)]
       ELSE [vertices |-> st.vertices,
             triangles |-> Append(st.triangles, st.vertices[p].index)]

\* one "check if we have new vertices" block of the loop body
lookupOrInsert(st, v, uninit) ==
    LET vt == LocalVertexType(v, uninit)
        p == setFind(st.vertices, vt)
    IN IF p = 0
       THEN LET nv == [vt EXCEPT !.index = Len(st.vertices)]
            IN [vertices |-> setInsert(st.vertices, nv),
                triangles |-> Append(st.triangles, nv.index)]
       ELSE [vertices |-> st.vertices,
             triangles |-> Append(st.triangles, st.vertices[p].index)]

\* a count that is one short whenever the length is a multiple of 3
soupTrianglesOffByOne(source) == (Len(source) - 1) \div 3

\* the number of triangles the loop runs over
soupTriangles(source) == Len(source) \div 3


\* iterations i..n-1 of the loop
RECURSIVE soupLoop(_, _, _, _, _)
soupLoop(source, i, n, st, uninit) ==
    IF i >= n THEN st
    ELSE LET i3 == i * 3
             s1 == lookupOrInsert(st, source[i3 + 1], uninit)
             s2 == lookupOrInsert(s1, source[i3 + 2], uninit)
             s3 == lookupOrInsert(s2, source[i3 + 3], uninit)
         IN soupLoop(source, i + 1, n, s3, uninit)

createMeshFromVerticesSource(source, uninit) ==
    IF Len(source) < 3 THEN NULL
    ELSE LET n == soupTriangles(source)
             st == soupLoop(source, 0, n, [vertices |-> <<>>, triangles |-> <<>>], uninit)
             vt == sortByIndex(st.vertices)
             nt == Len(st.triangles) \div 3
             mesh == Mesh(Len(vt), nt, 0, 0)
         IN [mesh EXCEPT !.vertices = flattenXYZ(vt),
                         !.triangles = st.triangles]

(***************************************************************************)
(* createMeshFromVertices(vertices, triangles)                             *)
(***************************************************************************)
\* x, y, z of each point of a sequence of points, interleaved
RECURSIVE flattenPoints(_)
flattenPoints(ps) ==
    IF ps = <<>> THEN <<>>
    ELSE <<Head(ps)[1], Head(ps)[2], Head(ps)[3]>> \o flattenPoints(Tail(ps))

\* the entries std::copy writes past the end of mesh->triangles
copyOverrun(triangles) == Len(triangles) - 3 * (Len(triangles) \div 3)

createMeshFromVertices(vertices, triangles) ==
    LET nt == Len(triangles) \div 3
        mesh == Mesh(Len(vertices), nt, 0, 0)
    IN [mesh EXCEPT !.vertices = flattenPoints(vertices),
                    !.triangles = SubSeq(triangles, 1, 3 * nt)]

(***************************************************************************)
(* The shapes of shapes.h and the messages of shape_messages.h.            *)
(***************************************************************************)
Sphere(r) == [type |-> "SPHERE", radius |-> r]
Box(x, y, z) == [type |-> "BOX", size |-> <<x, y, z>>]
Cylinder(r, l) == [type |-> "CYLINDER", radius |-> r, length |-> l]
Cone(r, l) == [type |-> "CONE", radius |-> r, length |-> l]
Plane(a, b, c, d) == [type |-> "PLANE", a |-> a, b |-> b, c |-> c, d |-> d]
OcTree == [type |-> "OCTREE"]
UnknownShape == [type |-> "UNKNOWN_SHAPE"]

SupportedTypes == {"SPHERE", "BOX", "CYLINDER", "CONE", "PLANE", "MESH"}

\* shape_msgs::SolidPrimitive (SolidPrimitive.msg) and shape_tools'
\* SolidPrimitiveDimCount: the offsets into dimensions and the number of
\* dimensions of each kind
SPHERE_RADIUS == 0
BOX_X == 0
BOX_Y == 1
BOX_Z == 2
CYLINDER_HEIGHT == 0
CYLINDER_RADIUS == 1
CONE_HEIGHT == 0
CONE_RADIUS == 1
SphereDimCount == 1
BoxDimCount == 3
CylinderDimCount == 2
ConeDimCount == 2

SolidPrimitiveMsg(kind, dims) == [msg |-> "SolidPrimitive", type |-> kind, dimensions |-> dims]
PlaneMsg(coef) == [msg |-> "Plane", coef |-> coef]
MeshMsg(vs, ts) == [msg |-> "Mesh", vertices |-> vs, triangles |-> ts]

\* a default-constructed ShapeMsg: the variant's first alternative
DefaultShapeMsg == SolidPrimitiveMsg("0", <<>>)

\* dimensions.resize(n) on a fresh message, then the assignments at offsets
\* (a set of <<offset, value>>)
setDimensions(n, assigns) ==
    [i \in 1..n |-> IF \E a \in assigns : a[1] = i - 1
                    THEN (CHOOSE a \in assigns : a[1] = i - 1)[2]
                    ELSE 0]

(***************************************************************************)
(* constructShapeFromMsg                                                   *)
(***************************************************************************)
\* dimensions[offset], and whether dimensions.size() > offset
dimAt(m, offset) == m.dimensions[offset + 1]
hasDim(m, offset) == Len(m.dimensions) > offset

\* a version that reads a missing dimension as 0.0 instead of giving up
solidPrimitiveWithDefaults(m) ==
    LET dimOr0(offset) == IF hasDim(m, offset) THEN dimAt(m, offset) ELSE 0
    IN IF m.type = "SPHERE" THEN Sphere(dimOr0(SPHERE_RADIUS))
       ELSE IF m.type = "BOX" THEN Box(dimOr0(BOX_X), dimOr0(BOX_Y), dimOr0(BOX_Z))
       ELSE IF m.type = "CYLINDER"
       THEN Cylinder(dimOr0(CYLINDER_RADIUS), dimOr0(CYLINDER_HEIGHT))
       ELSE IF m.type = "CONE" THEN Cone(dimOr0(CONE_RADIUS), dimOr0(CONE_HEIGHT))
       ELSE NULL

constructShapeFromSolidPrimitive(m) ==
    IF m.type = "SPHERE"
    THEN IF hasDim(m, SPHERE_RADIUS) THEN Sphere(dimAt(m, SPHERE_RADIUS)) ELSE NULL
    ELSE IF m.type = "BOX"
    THEN IF hasDim(m, BOX_X) /\ hasDim(m, BOX_Y) /\ hasDim(m, BOX_Z)
         THEN Box(dimAt(m, BOX_X), dimAt(m, BOX_Y), dimAt(m, BOX_Z))
         ELSE NULL
    ELSE IF m.type = "CYLINDER"
    THEN IF hasDim(m, CYLINDER_RADIUS) /\ hasDim(m, CYLINDER_HEIGHT)
         THEN Cylinder(dimAt(m, CYLINDER_RADIUS), dimAt(m, CYLINDER_HEIGHT))
         ELSE NULL
    ELSE IF m.type = "CONE"
    THEN IF hasDim(m, CONE_RADIUS) /\ hasDim(m, CONE_HEIGHT)
         THEN Cone(dimAt(m, CONE_RADIUS), dimAt(m, CONE_HEIGHT))
         ELSE NULL
    ELSE NULL

constructShapeFromPlaneMsg(m) == Plane(m.coef[1], m.coef[2], m.coef[3], m.coef[4])

\* a flattening that stores each triple back to front
RECURSIVE flattenTrianglesReversed(_)
flattenTrianglesReversed(ts) ==
    IF ts = <<>> THEN <<>>
    ELSE <<Head(ts)[3], Head(ts)[2], Head(ts)[1]>> \o flattenTrianglesReversed(Tail(ts))

\* the index triples of a mesh message, flattened
RECURSIVE flattenTriangles(_)
flattenTriangles(ts) ==
    IF ts = <<>> THEN <<>>
    ELSE Head(ts) \o flattenTriangles(Tail(ts))

\* shape_msg.triangles.empty() || shape_msg.vertices.empty()
meshMsgIsEmpty(m) == m.triangles = <<>> \/ m.vertices = <<>>

constructShapeFromMeshMsg(m) ==
    IF meshMsgIsEmpty(m) THEN NULL
    ELSE createMeshFromVertices(m.vertices, flattenTriangles(m.triangles))

\* constructShapeFromMsg(const ShapeMsg &): the visitor's dispatch
constructShapeFromMsg(m) ==
    IF m.msg = "Plane" THEN constructShapeFromPlaneMsg(m)
    ELSE IF m.msg = "Mesh" THEN constructShapeFromMeshMsg(m)
    ELSE constructShapeFromSolidPrimitive(m)

(***************************************************************************)
(* constructMsgFromShape: the value returned and the caller's message      *)
(* after the call.                                                         *)
(***************************************************************************)
\* the points and the index triples of a mesh, as the message holds them
meshPoints(mesh) ==
    [i \in 1..mesh.vertex_count |->
        <<mesh.vertices[3 * (i - 1) + 1], mesh.vertices[3 * (i - 1) + 2],
          mesh.vertices[3 * (i - 1) + 3]>>]
\* a copy whose third index repeats the second: "... = mesh->triangles[i3 + 1]"
meshTriplesTypo(mesh) ==
    [i \in 1..mesh.triangle_count |->
        <<mesh.triangles[3 * (i - 1) + 1], mesh.triangles[3 * (i - 1) + 2],
          mesh.triangles[3 * (i - 1) + 2]>>]

meshTriples(mesh) ==
    [i \in 1..mesh.triangle_count |->
        <<mesh.triangles[3 * (i - 1) + 1], mesh.triangles[3 * (i - 1) + 2],
          mesh.triangles[3 * (i - 1) + 3]>>]

\* the message of each supported type; NoMsg when the chain of ifs reaches
\* its last else
NoMsg == [msg |-> "none"]

shapeMsgFor(shape) ==
    IF shape.type = "SPHERE"
    THEN SolidPrimitiveMsg("SPHERE", setDimensions(SphereDimCount,
             {<<SPHERE_RADIUS, shape.radius>>}))
    ELSE IF shape.type = "BOX"
    THEN SolidPrimitiveMsg("BOX", setDimensions(BoxDimCount,
             {<<BOX_X, shape.size[1]>>, <<BOX_Y, shape.size[2]>>,
              <<BOX_Z, shape.size[3]>>}))
    ELSE IF shape.type = "CYLINDER"
    THEN SolidPrimitiveMsg("CYLINDER", setDimensions(CylinderDimCount,
             {<<CYLINDER_RADIUS, shape.radius>>, <<CYLINDER_HEIGHT, shape.length>>}))
    ELSE IF shape.type = "CONE"
    THEN SolidPrimitiveMsg("CONE", setDimensions(ConeDimCount,
             {<<CONE_RADIUS, shape.radius>>, <<CONE_HEIGHT, shape.length>>}))
    ELSE IF shape.type = "PLANE"
    THEN PlaneMsg(<<shape.a, shape.b, shape.c, shape.d>>)
    ELSE IF shape.type = "MESH"
    THEN MeshMsg(meshPoints(shape), meshTriples(shape))
    ELSE NoMsg

\* a version whose failure path assigns a default-constructed message
constructMsgResetsOnFailure(shape, shape_msg) ==
    LET s == shapeMsgFor(shape)
    IN IF s # NoMsg THEN [ok |-> TRUE, msg |-> s]
       ELSE [ok |-> FALSE, msg |-> DefaultShapeMsg]

constructMsgFromShape(shape, shape_msg) ==
    LET s == shapeMsgFor(shape)
    IN IF s # NoMsg THEN [ok |-> TRUE, msg |-> s]
       ELSE [ok |-> FALSE, msg |-> shape_msg]

(***************************************************************************)
(* constructMarkerFromShape.  The visitor ends normally ("done") or by an  *)
(* exception, named by its class.  shape_tools::constructMarkerFromShape   *)
(* throws std::runtime_error for a primitive of an unknown kind or with    *)
(* too few dimensions, and for a mesh without triangles or vertices.       *)
(***************************************************************************)
markerFromSolidPrimitive(m) ==
    IF \/ m.type = "SPHERE" /\ hasDim(m, SPHERE_RADIUS)
       \/ m.type = "BOX" /\ hasDim(m, BOX_X) /\ hasDim(m, BOX_Y) /\ hasDim(m, BOX_Z)
       \/ m.type = "CYLINDER" /\ hasDim(m, CYLINDER_RADIUS) /\ hasDim(m, CYLINDER_HEIGHT)
       \/ m.type = "CONE" /\ hasDim(m, CONE_RADIUS) /\ hasDim(m, CONE_HEIGHT)
    THEN "done"
    ELSE "std::runtime_error"

markerFromMesh(m) ==
    IF m.triangles = <<>> \/ m.vertices = <<>> THEN "std::runtime_error" ELSE "done"

\* boost::apply_visitor(ShapeVisitorMarker(...), shape_msg)
markerVisitor(m) ==
    IF m.msg = "Plane" THEN "std::runtime_error"
    ELSE IF m.msg = "Mesh" THEN markerFromMesh(m)
    ELSE markerFromSolidPrimitive(m)

\* a handler declared for another exception class
catchesLogicError(ex) == ex = "std::logic_error"

\* catch (std::runtime_error &ex)
catches(ex) == ex = "std::runtime_error"

\* the call: whether it returned (no exception left it), the value it
\* returned, whether the visitor was applied and whether it ended normally
constructMarkerFromShape(s) ==
    LET r == constructMsgFromShape(s, DefaultShapeMsg)
        v == markerVisitor(r.msg)
    IN IF ~r.ok
       THEN [returned |-> TRUE, value |-> FALSE, visited |-> FALSE, completed |-> FALSE]
       ELSE IF v = "done"
       THEN [returned |-> TRUE, value |-> TRUE, visited |-> TRUE, completed |-> TRUE]
       ELSE IF catches(v)
       THEN [returned |-> TRUE, value |-> FALSE, visited |-> TRUE, completed |-> FALSE]
       ELSE [returned |-> FALSE, value |-> FALSE, visited |-> TRUE, completed |-> FALSE]

\* before any call
NoMarkerCall ==
    [returned |-> FALSE, value |-> FALSE, visited |-> FALSE, completed |-> FALSE]

(***************************************************************************)
(* computeShapeExtents.  shape_tools::getShapeExtents sets the three       *)
(* extents to 0.0 and then, for a primitive of a known kind with enough    *)
(* dimensions, to the size of its bounding box; for a mesh with vertices,  *)
(* to the difference of the extrema of each coordinate.                    *)
(***************************************************************************)
maxOf(S) == CHOOSE x \in S : \A y \in S : y <= x
minOf(S) == CHOOSE x \in S : \A y \in S : x <= y

ZeroExtents == <<0, 0, 0>>

getShapeExtentsSolidPrimitive(m) ==
    IF m.type = "SPHERE" /\ Len(m.dimensions) >= SphereDimCount
    THEN <<2 * dimAt(m, SPHERE_RADIUS), 2 * dimAt(m, SPHERE_RADIUS),
           2 * dimAt(m, SPHERE_RADIUS)>>
    ELSE IF m.type = "BOX" /\ Len(m.dimensions) >= BoxDimCount
    THEN <<dimAt(m, BOX_X), dimAt(m, BOX_Y), dimAt(m, BOX_Z)>>
    ELSE IF m.type = "CYLINDER" /\ Len(m.dimensions) >= CylinderDimCount
    THEN <<2 * dimAt(m, CYLINDER_RADIUS), 2 * dimAt(m, CYLINDER_RADIUS),
           dimAt(m, CYLINDER_HEIGHT)>>
    ELSE IF m.type = "CONE" /\ Len(m.dimensions) >= ConeDimCount
    THEN <<2 * dimAt(m, CONE_RADIUS), 2 * dimAt(m, CONE_RADIUS),
           dimAt(m, CONE_HEIGHT)>>
    ELSE ZeroExtents

getShapeExtentsMesh(m) ==
    IF m.vertices = <<>> THEN ZeroExtents
    ELSE [k \in 1..3 |->
            LET cs == {m.vertices[i][k] : i \in 1..Len(m.vertices)}
            IN maxOf(cs) - minOf(cs)]

\* a plane handler that answers with the plane's normal
planeExtentsFromNormal(m) == <<m.coef[1], m.coef[2], m.coef[3]>>

\* ShapeVisitorComputeExtents::operator()(const shape_msgs::Plane &)
planeExtents(m) == ZeroExtents

\* computeShapeExtents(const ShapeMsg &): the visitor's dispatch
computeShapeExtentsMsg(m) ==
    IF m.msg = "Plane" THEN planeExtents(m)
    ELSE IF m.msg = "Mesh" THEN getShapeExtentsMesh(m)
    ELSE getShapeExtentsSolidPrimitive(m)

\* computeShapeExtents(const Shape *): through a local, default-constructed
\* message
computeShapeExtents(s) ==
    LET r == constructMsgFromShape(s, DefaultShapeMsg)
    IN IF r.ok THEN computeShapeExtentsMsg(r.msg) ELSE ZeroExtents

(***************************************************************************)
(* Text.  A stream's content is its whitespace-separated tokens and        *)
(* whether whitespace follows the last one.  A token is a word or a        *)
(* decimal numeral (n: the number it denotes).                             *)
(***************************************************************************)
Word(w) == [w |-> w, n |-> 0]
Num(n) == [w |-> "#", n |-> n]
isNum(tok) == tok.w = "#"

EmptyText == [toks |-> <<>>, ws |-> FALSE]

\* STRING_NAME of each shape class
SphereName == "sphere"
BoxName == "box"
CylinderName == "cylinder"
ConeName == "cone"
PlaneName == "plane"
MeshName == "mesh"

\* the significant digits operator<< gives a double by default
Precision == 6

RECURSIVE pow10(_)
pow10(k) == IF k = 0 THEN 1 ELSE 10 * pow10(k - 1)

RECURSIVE digits(_)
digits(v) == IF v < 10 THEN 1 ELSE 1 + digits(v \div 10)

\* out << v for a double v >= 0 holding an integer: the number the printed
\* numeral denotes, v rounded to Precision significant digits (ties to even)
formatDouble(v) ==
    IF digits(v) <= Precision THEN v
    ELSE LET scale == pow10(digits(v) - Precision)
             q == v \div scale
             r == v % scale
             up == (2 * r > scale) \/ (2 * r = scale /\ q % 2 = 1)
         IN (IF up THEN q + 1 ELSE q) * scale

\* out << a << " " << b ... << std::endl, appended to the content
writeDoubles(t, vals) ==
    [toks |-> t.toks \o [i \in 1..Len(vals) |-> Num(formatDouble(vals[i]))], ws |-> TRUE]
writeUnsigned(t, vals) ==
    [toks |-> t.toks \o [i \in 1..Len(vals) |-> Num(vals[i])], ws |-> TRUE]
writeName(t, name) == [toks |-> Append(t.toks, Word(name)), ws |-> TRUE]

\* saveAsText(shape, out): the content of out after the call, t before it
saveAsText(shape, t) ==
    IF shape.type = "SPHERE"
    THEN writeDoubles(writeName(t, SphereName), <<shape.radius>>)
    ELSE IF shape.type = "BOX"
    THEN writeDoubles(writeName(t, BoxName), shape.size)
    ELSE IF shape.type = "CYLINDER"
    THEN writeDoubles(writeName(t, CylinderName), <<shape.radius, shape.length>>)
    ELSE IF shape.type = "CONE"
    THEN writeDoubles(writeName(t, ConeName), <<shape.radius, shape.length>>)
    ELSE IF shape.type = "PLANE"
    THEN writeDoubles(writeName(t, PlaneName), <<shape.a, shape.b, shape.c, shape.d>>)
    ELSE IF shape.type = "MESH"
    THEN LET head == writeUnsigned(writeName(t, MeshName),
                                   <<shape.vertex_count, shape.triangle_count>>)
             vs == writeDoubles(head, SubSeq(shape.vertices, 1, 3 * shape.vertex_count))
         IN writeUnsigned(vs, SubSeq(shape.triangles, 1, 3 * shape.triangle_count))
    ELSE t

(***************************************************************************)
(* std::istream: pos tokens consumed, and the eofbit and failbit.          *)
(***************************************************************************)
FreshStream == [pos |-> 0, eof |-> FALSE, fail |-> FALSE]

\* in.good() && !in.eof()
streamGood(st) == ~st.eof /\ ~st.fail

\* the sentry and the scan of one token: the stream after it, whether a
\* token was read, and the token
scanToken(t, st) ==
    IF ~streamGood(st)
    THEN [st |-> [st EXCEPT !.fail = TRUE], got |-> FALSE, tok |-> Word("")]
    ELSE IF st.pos >= Len(t.toks)
    THEN [st |-> [st EXCEPT !.eof = TRUE, !.fail = TRUE], got |-> FALSE, tok |-> Word("")]
    ELSE [st |-> [pos |-> st.pos + 1,
                  eof |-> (st.pos + 1 = Len(t.toks) /\ ~t.ws),
                  fail |-> FALSE],
          got |-> TRUE,
          tok |-> t.toks[st.pos + 1]]

\* in >> type (a std::string): the word read, "" when none was
extractString(t, st) ==
    LET r == scanToken(t, st)
    IN [st |-> r.st,
        val |-> IF ~r.got THEN "" ELSE IF isNum(r.tok) THEN "#" ELSE r.tok.w]

\* in >> x for a double or an unsigned int that holds `old`: a numeral is
\* stored; otherwise failbit is set and x is left as it was or zeroed
extractNumber(t, st, old) ==
    LET r == scanToken(t, st)
    IN IF r.got /\ isNum(r.tok) THEN [st |-> r.st, val |-> r.tok.n]
       ELSE [st |-> [r.st EXCEPT !.fail = TRUE], val |-> old]

\* in >> a >> b >> ... into n variables that hold `old`
RECURSIVE extractNumbers(_, _, _, _)
extractNumbers(t, st, n, old) ==
    IF n = 0 THEN [st |-> st, vals |-> <<>>]
    ELSE LET r == extractNumber(t, st, old)
             rest == extractNumbers(t, r.st, n - 1, old)
         IN [st |-> rest.st, vals |-> <<r.val>> \o rest.vals]

(***************************************************************************)
(* constructShapeFromText.  uninit is what the uninitialised locals and    *)
(* the fresh arrays of a Mesh hold.                                        *)
(***************************************************************************)
\* a cone branch that builds the cylinder of the branch above it
primitiveConeAsCylinder(type, t, st, uninit) ==
    IF type = SphereName
    THEN Sphere(extractNumbers(t, st, 1, uninit).vals[1])
    ELSE IF type = BoxName
    THEN LET v == extractNumbers(t, st, 3, uninit).vals IN Box(v[1], v[2], v[3])
    ELSE IF type = CylinderName \/ type = ConeName
    THEN LET v == extractNumbers(t, st, 2, uninit).vals IN Cylinder(v[1], v[2])
    ELSE IF type = PlaneName
    THEN LET v == extractNumbers(t, st, 4, uninit).vals IN Plane(v[1], v[2], v[3], v[4])
    ELSE NULL

\* the branches of the five primitives
primitiveFromText(type, t, st, uninit) ==
    IF type = SphereName
    THEN Sphere(extractNumbers(t, st, 1, uninit).vals[1])
    ELSE IF type = BoxName
    THEN LET v == extractNumbers(t, st, 3, uninit).vals IN Box(v[1], v[2], v[3])
    ELSE IF type = CylinderName
    THEN LET v == extractNumbers(t, st, 2, uninit).vals IN Cylinder(v[1], v[2])
    ELSE IF type = ConeName
    THEN LET v == extractNumbers(t, st, 2, uninit).vals IN Cone(v[1], v[2])
    ELSE IF type = PlaneName
    THEN LET v == extractNumbers(t, st, 4, uninit).vals IN Plane(v[1], v[2], v[3], v[4])
    ELSE NULL

\* the mesh branch
meshFromText(t, st, uninit) ==
    LET head == extractNumbers(t, st, 2, uninit)
        v == head.vals[1]
        tc == head.vals[2]
        m == Mesh(v, tc, uninit, uninit)
        vs == extractNumbers(t, head.st, 3 * m.vertex_count, uninit)
        ts == extractNumbers(t, vs.st, 3 * m.triangle_count, uninit)
    IN [m EXCEPT !.vertices = vs.vals, !.triangles = ts.vals]

constructShapeFromText(t, uninit) ==
    IF ~streamGood(FreshStream) THEN NULL
    ELSE LET r == extractString(t, FreshStream)
         IN IF ~streamGood(r.st) THEN NULL
            ELSE IF r.val = MeshName THEN meshFromText(t, r.st, uninit)
            ELSE primitiveFromText(r.val, t, r.st, uninit)

(***************************************************************************)
(* State: a caller's variables around the calls it makes.                  *)
(***************************************************************************)
VARIABLES
    op,         \* the last call made
    source,     \* the soup passed to createMeshFromVertices(source)
    junk,       \* what the uninitialised memory of each soup call held
    vertices,   \* the arguments of createMeshFromVertices(vertices, triangles)
    triangles,
    overrun,    \* entries that call wrote past the end of mesh->triangles
    shape,      \* the caller's Shape* (NULL when a construction failed)
    prev,       \* the mesh an earlier call on the same soup returned
    shape_msg,  \* the caller's ShapeMsg
    old_msg,    \* the caller's ShapeMsg before constructMsgFromShape
    ret,        \* what constructMsgFromShape returned
    text,       \* the content of the caller's stream
    result,     \* the Shape* constructShapeFromMsg / FromText returned
    extents,    \* the vector computeShapeExtents returned (<<>>: not called)
    marker      \* how constructMarkerFromShape ended

vars == <<op, source, junk, vertices, triangles, overrun, shape, prev,
          shape_msg, old_msg, ret, text, result, extents, marker>>

\* the inputs a caller may pass
Soups == SeqsOf(Points, 0, MaxSoupLen)
Values == (0..MaxValue) \cup {BigValue}
IdxValues == 0..MaxVerts
Uninit == {0, 1}

CallerShapes ==
    {Sphere(r) : r \in Values}
        \cup {Box(x, y, z) : x \in Values, y \in Values, z \in Values}
        \cup {Cylinder(r, l) : r \in Values, l \in Values}
        \cup {Cone(r, l) : r \in Values, l \in Values}
        \cup {Plane(c[1], c[2], c[3], c[4]) : c \in [1..4 -> Values]}
        \cup {OcTree, UnknownShape}

CallerMsgs ==
    {SolidPrimitiveMsg(k, d) :
        k \in {"0", "BOX", "SPHERE", "CYLINDER", "CONE", "5"},
        d \in SeqsOf(0..MaxValue, 0, BoxDimCount + 1)}
        \cup {PlaneMsg(c) : c \in [1..4 -> 0..MaxValue]}
        \cup {MeshMsg(vs, ts) :
                vs \in SeqsOf(Points, 0, MaxVerts),
                ts \in SeqsOf([1..3 -> IdxValues], 0, MaxIdxLen \div 3)}

TypeNames == {SphereName, BoxName, CylinderName, ConeName, PlaneName, MeshName}
FirstTokens == {Word(w) : w \in TypeNames \cup {"octree"}} \cup {Num(1)}
FieldTokens == {Num(0), Num(1), Word("x")}
CallerTexts ==
    {EmptyText, [toks |-> <<>>, ws |-> TRUE]}
        \cup {[toks |-> <<f>> \o rest, ws |-> b] :
                f \in FirstTokens, rest \in SeqsOf(FieldTokens, 0, MaxFields),
                b \in BOOLEAN}

Init ==
    /\ op = "init"
    /\ source = <<>>
    /\ junk = <<>>
    /\ vertices = <<>>
    /\ triangles = <<>>
    /\ overrun = 0
    /\ shape = NULL
    /\ prev = NULL
    /\ shape_msg = DefaultShapeMsg
    /\ old_msg = DefaultShapeMsg
    /\ ret = FALSE
    /\ text = EmptyText
    /\ result = NULL
    /\ extents = <<>>
    /\ marker = NoMarkerCall

\* shape = createMeshFromVertices(source)
CreateMeshFromVerticesSoup ==
    /\ op = "init"
    /\ \E src \in Soups, g \in JunkIndex :
          /\ source' = src
          /\ junk' = <<g>>
          /\ shape' = createMeshFromVerticesSource(src, g)
    /\ op' = "soup"
    /\ UNCHANGED <<vertices, triangles, overrun, prev, shape_msg, old_msg, ret,
                   text, result,
                   extents, marker>>

\* the same call once more, on the same soup
CreateMeshFromVerticesSoupAgain ==
    /\ op = "soup"
    /\ \E g \in JunkIndex :
          /\ junk' = Append(junk, g)
          /\ shape' = createMeshFromVerticesSource(source, g)
    /\ prev' = shape
    /\ op' = "soup2"
    /\ UNCHANGED <<source, vertices, triangles, overrun, shape_msg, old_msg, ret,
                   text, result,
                   extents, marker>>

\* shape = createMeshFromVertices(vertices, triangles)
CreateMeshFromVerticesIndexed ==
    /\ op = "init"
    /\ \E vs \in SeqsOf(Points, 0, MaxVerts), ts \in SeqsOf(IdxValues, 0, MaxIdxLen) :
          /\ vertices' = vs
          /\ triangles' = ts
          /\ shape' = createMeshFromVertices(vs, ts)
          /\ overrun' = copyOverrun(ts)
    /\ op' = "indexed"
    /\ UNCHANGED <<source, junk, prev, shape_msg, old_msg, ret, text, result,
                   extents, marker>>

\* the caller constructs a shape itself: shape = new Sphere(r), ...
NewShape ==
    /\ op = "init"
    /\ \E s \in CallerShapes : shape' = s
    /\ op' = "new"
    /\ UNCHANGED <<source, junk, vertices, triangles, overrun, prev, shape_msg,
                   old_msg, ret, text, result,
                   extents, marker>>

\* the caller points shape at an unsupported shape and keeps its message
NewUnsupportedShape ==
    /\ op = "toMsg"
    /\ ret
    /\ \E s \in {OcTree, UnknownShape} : shape' = s
    /\ op' = "new"
    /\ UNCHANGED <<source, junk, vertices, triangles, overrun, prev, shape_msg,
                   old_msg, ret, text, result,
                   extents, marker>>

\* the caller fills in a message itself
SetMsg ==
    /\ op = "init"
    /\ \E m \in CallerMsgs : shape_msg' = m
    /\ op' = "setmsg"
    /\ UNCHANGED <<source, junk, vertices, triangles, overrun, shape, prev,
                   old_msg, ret, text, result,
                   extents, marker>>

\* the caller writes a text itself
WriteText ==
    /\ op = "init"
    /\ \E t \in CallerTexts : text' = t
    /\ op' = "written"
    /\ UNCHANGED <<source, junk, vertices, triangles, overrun, shape, prev,
                   shape_msg, old_msg, ret, result,
                   extents, marker>>

holdsShape == op \in {"new", "indexed", "soup", "adopt"} /\ shape # NULL

\* the arguments of an earlier construction call are no longer at hand
ArgsGone ==
    /\ source' = <<>>
    /\ junk' = <<>>
    /\ vertices' = <<>>
    /\ triangles' = <<>>
    /\ overrun' = 0

\* ret = constructMsgFromShape(shape, shape_msg)
ConstructMsgFromShape ==
    /\ holdsShape
    /\ LET r == constructMsgFromShape(shape, shape_msg)
       IN /\ ret' = r.ok
          /\ shape_msg' = r.msg
    /\ old_msg' = shape_msg
    /\ op' = "toMsg"
    /\ ArgsGone
    /\ UNCHANGED <<shape, prev, text, result,
                   extents, marker>>

\* result = constructShapeFromMsg(shape_msg)
ConstructShapeFromMsg ==
    /\ (op = "toMsg" /\ ret) \/ op = "setmsg"
    /\ result' = constructShapeFromMsg(shape_msg)
    /\ op' = IF op = "toMsg" THEN "backFromMsg" ELSE "fromMsg"
    /\ UNCHANGED <<source, junk, vertices, triangles, overrun, shape, prev,
                   shape_msg, old_msg, ret, text,
                   extents, marker>>

\* saveAsText(shape, out) on an empty stream
SaveAsText ==
    /\ holdsShape
    /\ text' = saveAsText(shape, EmptyText)
    /\ op' = "save"
    /\ ArgsGone
    /\ UNCHANGED <<shape, prev, shape_msg, old_msg, ret, result,
                   extents, marker>>

\* result = constructShapeFromText(in) on a stream over text
ConstructShapeFromText ==
    /\ op \in {"save", "written"}
    /\ \E u \in Uninit : result' = constructShapeFromText(text, u)
    /\ op' = IF op = "save" THEN "reload" ELSE "load"
    /\ UNCHANGED <<source, junk, vertices, triangles, overrun, shape, prev,
                   shape_msg, old_msg, ret, text,
                   extents, marker>>

\* the caller goes on with the shape it was returned
AdoptResult ==
    /\ op \in {"fromMsg", "load"}
    /\ result # NULL
    /\ shape' = result
    /\ result' = NULL
    /\ op' = "adopt"
    /\ UNCHANGED <<source, junk, vertices, triangles, overrun, prev, shape_msg,
                   old_msg, ret, text,
                   extents, marker>>

\* extents = computeShapeExtents(shape_msg)
ComputeShapeExtentsMsg ==
    /\ op = "setmsg"
    /\ extents' = computeShapeExtentsMsg(shape_msg)
    /\ op' = "extentsMsg"
    /\ UNCHANGED <<source, junk, vertices, triangles, overrun, shape, prev,
                   shape_msg, old_msg, ret, text, result, marker>>

\* extents = computeShapeExtents(shape)
ComputeShapeExtentsShape ==
    /\ holdsShape
    /\ extents' = computeShapeExtents(shape)
    /\ op' = "extents"
    /\ ArgsGone
    /\ UNCHANGED <<shape, prev, shape_msg, old_msg, ret, text, result, marker>>

\* constructMarkerFromShape(shape, marker, use_mesh_triangle_list)
ConstructMarkerFromShape ==
    /\ holdsShape
    /\ marker' = constructMarkerFromShape(shape)
    /\ op' = "marker"
    /\ ArgsGone
    /\ UNCHANGED <<shape, prev, shape_msg, old_msg, ret, text, result, extents>>

Next ==
    \/ CreateMeshFromVerticesSoup
    \/ CreateMeshFromVerticesSoupAgain
    \/ CreateMeshFromVerticesIndexed
    \/ NewShape
    \/ NewUnsupportedShape
    \/ SetMsg
    \/ WriteText
    \/ ConstructMsgFromShape
    \/ ConstructShapeFromMsg
    \/ SaveAsText
    \/ ConstructShapeFromText
    \/ AdoptResult
    \/ ComputeShapeExtentsMsg
    \/ ComputeShapeExtentsShape
    \/ ConstructMarkerFromShape

Spec == Init /\ [][Next]_vars

(***************************************************************************)
(* Properties of createMeshFromVertices(source).                           *)
(***************************************************************************)
afterSoup == op \in {"soup", "soup2"}

\* the points the loop processes: whole triangles only
processedLen == 3 * (Len(source) \div 3)
processedPoints == {source[j] : j \in 1..processedLen}

\* the k-th (from 0) vertex of a mesh
vertexAt(m, k) == <<m.vertices[3 * k + 1], m.vertices[3 * k + 2], m.vertices[3 * k + 3]>>

\* the points of a sequence in order of first appearance
RECURSIVE firstAppearances(_, _)
firstAppearances(s, seen) ==
    IF s = <<>> THEN <<>>
    ELSE IF Head(s) \in seen THEN firstAppearances(Tail(s), seen)
    ELSE <<Head(s)>> \o firstAppearances(Tail(s), seen \cup {Head(s)})

\* C1: a mesh built from a soup has one vertex per distinct coordinate
\* triple of the processed points, each triple exactly once, and every
\* triangle index is below vertex_count.
C1_SoupDedup ==
    (afterSoup /\ Len(source) >= 3) =>
        /\ shape.type = "MESH"
        /\ shape.vertex_count = Cardinality(processedPoints)
        /\ Len(shape.vertices) = 3 * shape.vertex_count
        /\ {vertexAt(shape, k) : k \in 0..(shape.vertex_count - 1)} = processedPoints
        /\ \A k1, k2 \in 0..(shape.vertex_count - 1) :
              vertexAt(shape, k1) = vertexAt(shape, k2) => k1 = k2
        /\ \A j \in 1..Len(shape.triangles) : shape.triangles[j] < shape.vertex_count

\* a soup of two triangles that share vertices has been built
C1_Witness ==
    /\ afterSoup
    /\ Len(source) >= 6
    /\ shape.type = "MESH"
    /\ shape.vertex_count = 4
    /\ shape.triangle_count = 2

\* C2: ids are given in order of first appearance: output vertex k is the
\* k-th distinct triple met when scanning the input, whatever the value
\* order of the lookup set.
C2_FirstAppearanceOrder ==
    (afterSoup /\ Len(source) >= 3) =>
        LET fa == firstAppearances(SubSeq(source, 1, processedLen), {})
        IN /\ shape.vertex_count = Len(fa)
           /\ \A k \in 0..(Len(fa) - 1) : vertexAt(shape, k) = fa[k + 1]

\* a soup whose first appearances are in descending value order
C2_Witness ==
    /\ afterSoup
    /\ shape.type = "MESH"
    /\ shape.vertex_count >= 3
    /\ \A k \in 0..(shape.vertex_count - 2) :
          ltLocalVertexValue(LocalVertexType(vertexAt(shape, k + 1), 0),
                             LocalVertexType(vertexAt(shape, k), 0))

\* C3: two calls on the same soup return the same mesh, whatever the
\* uninitialised index field of the lookup key held in either call.
C3_Deterministic ==
    (op = "soup2") => (prev = shape)

\* two calls that saw different uninitialised memory, on a soup with a
\* repeated vertex
C3_Witness ==
    /\ op = "soup2"
    /\ junk[1] # junk[2]
    /\ shape.type = "MESH"
    /\ shape.vertex_count < 3 * shape.triangle_count

\* C4: fewer than 3 points give no mesh; 3 or more give a mesh of
\* floor(len / 3) triangles, and the len mod 3 trailing points add no index
\* and no vertex.
C4_ShortAndTrailing ==
    afterSoup =>
        /\ (Len(source) < 3) => (shape = NULL)
        /\ (Len(source) >= 3) =>
              /\ shape.type = "MESH"
              /\ shape.triangle_count = Len(source) \div 3
              /\ Len(shape.triangles) = processedLen
              /\ \A k \in 0..(shape.vertex_count - 1) :
                    vertexAt(shape, k) \in processedPoints

\* a soup of 4 points whose last point is none of the first three
C4_Witness ==
    /\ afterSoup
    /\ Len(source) = 4
    /\ source[4] \notin processedPoints
    /\ shape.type = "MESH"
    /\ shape.triangle_count = 1

\* a soup of 2 points has been refused
C4_WitnessShort ==
    /\ afterSoup
    /\ Len(source) = 2
    /\ shape = NULL

\* C15: a mesh built from a soup keeps the soup's geometry: for every
\* processed position j the vertex at index triangles[j] has the coordinates
\* of source[j]; every vertex is referenced by some triangle index; and the
\* index array holds exactly 3 * triangle_count entries.
C15_SoupGeometry ==
    (afterSoup /\ Len(source) >= 3) =>
        /\ shape.type = "MESH"
        /\ Len(shape.triangles) = 3 * shape.triangle_count
        /\ Len(shape.triangles) = processedLen
        /\ \A j \in 1..processedLen :
              /\ shape.triangles[j] \in 0..(shape.vertex_count - 1)
              /\ vertexAt(shape, shape.triangles[j]) = source[j]
        /\ \A k \in 0..(shape.vertex_count - 1) :
              \E j \in 1..Len(shape.triangles) : shape.triangles[j] = k

\* a soup of two triangles, the second of which repeats a point of the
\* first and brings a point of smaller value than any before it
C15_Witness ==
    /\ afterSoup
    /\ Len(source) = 6
    /\ source[4] = source[2]
    /\ \A j \in 1..4 : ltLocalVertexValue(LocalVertexType(source[5], 0),
                                           LocalVertexType(source[j], 0))
    /\ shape.type = "MESH"
    /\ shape.triangles[4] = shape.triangles[2]
    /\ vertexAt(shape, shape.triangles[5]) = source[5]

(***************************************************************************)
(* Properties of createMeshFromVertices(vertices, triangles).              *)
(***************************************************************************)
\* C16 as stated: whatever the length of triangles, the indices the call
\* writes into the mesh's triangles array are no more than the
\* 3 * triangle_count entries allocated for it, and the coordinates it
\* writes into the vertices array are exactly 3 * vertex_count.
C16_ArraysSizedExactly ==
    (op = "indexed") =>
        /\ shape.triangle_count = Len(triangles) \div 3
        /\ Len(triangles) <= 3 * shape.triangle_count
        /\ overrun = 0
        /\ Len(flattenPoints(vertices)) = 3 * shape.vertex_count

(***************************************************************************)
(* Properties of the message and text conversions.                         *)
(***************************************************************************)
\* every entry of the triangles array is below vertex_count
inRange(m) == \A j \in 1..Len(m.triangles) : m.triangles[j] < m.vertex_count

isEmptyMesh(s) == s.type = "MESH" /\ (s.vertex_count = 0 \/ s.triangle_count = 0)

\* C5 as stated: the shape built from the message of a supported shape
\* equals the shape, for every mesh a construction can return too.
C5_MsgRoundTrip ==
    (op = "backFromMsg") => (result = shape)

\* C5, amended: the shape built from the message of a supported shape equals
\* the shape, unless the shape is a mesh without vertices or without
\* triangles: the message of such a mesh is refused (NULL).
C5_MsgRoundTripNonEmpty ==
    (op = "backFromMsg") =>
        /\ shape.type \in SupportedTypes
        /\ IF isEmptyMesh(shape) THEN result = NULL ELSE result = shape

\* a mesh with a triangle of different indices went to a message and back
C5_Witness ==
    /\ op = "backFromMsg"
    /\ shape.type = "MESH"
    /\ shape.triangle_count >= 1
    /\ shape.triangles[2] # shape.triangles[3]
    /\ result = shape

\* C6 as stated: loading the text saved from a shape of a supported type
\* gives back every numeric field exactly.
C6_TextRoundTrip ==
    (op = "reload" /\ shape.type \in SupportedTypes) => (result = shape)

\* the text starts with one of the six type names
startsWithTypeName(t) ==
    /\ Len(t.toks) >= 1
    /\ ~isNum(t.toks[1])
    /\ t.toks[1].w \in TypeNames

\* the numeric fields the named type needs (for a mesh: as its header says)
fieldsNeeded(t) ==
    LET w == t.toks[1].w
    IN IF w = SphereName THEN 1
       ELSE IF w = BoxName THEN 3
       ELSE IF w = CylinderName \/ w = ConeName THEN 2
       ELSE IF w = PlaneName THEN 4
       ELSE IF Len(t.toks) >= 3 /\ isNum(t.toks[2]) /\ isNum(t.toks[3])
       THEN 2 + 3 * t.toks[2].n + 3 * t.toks[3].n
       ELSE 2

\* a type name followed by all the numerals its type needs
fullFields(t) ==
    /\ startsWithTypeName(t)
    /\ Len(t.toks) >= 1 + fieldsNeeded(t)
    /\ \A i \in 2..(1 + fieldsNeeded(t)) : isNum(t.toks[i])

typeOfName(w) ==
    IF w = SphereName THEN "SPHERE"
    ELSE IF w = BoxName THEN "BOX"
    ELSE IF w = CylinderName THEN "CYLINDER"
    ELSE IF w = ConeName THEN "CONE"
    ELSE IF w = PlaneName THEN "PLANE"
    ELSE "MESH"

afterLoad == op \in {"load", "reload"}

\* C7 as stated: a text that starts with a type name and lacks some of the
\* numeric fields of that type gives NULL.
C7_MissingFieldsIsNull ==
    (afterLoad /\ startsWithTypeName(text) /\ ~fullFields(text)) => (result = NULL)

\* C8: no token, or a first token that is no type name, gives NULL; a type
\* name followed by all its numeric fields gives a shape of that type.
C8_TypeToken ==
    afterLoad =>
        /\ (~startsWithTypeName(text)) => (result = NULL)
        /\ fullFields(text) => (result.type = typeOfName(text.toks[1].w))

\* a complete cone text that ends without whitespace has been loaded
C8_Witness ==
    /\ op = "load"
    /\ fullFields(text)
    /\ text.toks[1].w = ConeName
    /\ Len(text.toks) = 3
    /\ ~text.ws
    /\ result.type = "CONE"

\* C9 as stated: every mesh a construction returns has all its triangle
\* indices below vertex_count.
C9_IndexInvariant ==
    /\ (op \in {"soup", "soup2", "indexed"} /\ shape.type = "MESH") => inRange(shape)
    /\ (op \in {"fromMsg", "backFromMsg", "load", "reload"} /\ result.type = "MESH")
          => inRange(result)

\* C9, amended: a mesh built from a soup has all its indices below
\* vertex_count; the other constructions copy the indices they are given
\* unchecked, so their mesh has the property exactly when every index
\* copied into it is below the number of vertices given (for a text: when
\* the text holds all the fields its header announces).
C9_IndexInvariantWhenSupplied ==
    /\ (op \in {"soup", "soup2"} /\ shape.type = "MESH") => inRange(shape)
    /\ (op = "indexed") =>
          /\ shape.type = "MESH"
          /\ shape.vertex_count = Len(vertices)
          /\ inRange(shape) <=>
                \A j \in 1..(3 * (Len(triangles) \div 3)) : triangles[j] < Len(vertices)
    /\ (op \in {"fromMsg", "backFromMsg"} /\ result.type = "MESH") =>
          /\ result.vertex_count = Len(shape_msg.vertices)
          /\ inRange(result) <=>
                \A i \in 1..Len(shape_msg.triangles) : \A k \in 1..3 :
                    shape_msg.triangles[i][k] < Len(shape_msg.vertices)
    /\ (afterLoad /\ result.type = "MESH" /\ fullFields(text)) =>
          /\ result.vertex_count = text.toks[2].n
          /\ inRange(result) <=>
                \A i \in (4 + 3 * text.toks[2].n)..(1 + fieldsNeeded(text)) :
                    text.toks[i].n < text.toks[2].n

\* a mesh has been built from in-range indices
C9_Witness ==
    /\ op = "indexed"
    /\ shape.triangle_count >= 1
    /\ \A j \in 1..Len(triangles) : triangles[j] < Len(vertices)
    /\ inRange(shape)

\* C10: on an OCTREE or unrecognized shape constructMsgFromShape returns
\* false and leaves the caller's message as it was; on each supported type
\* it returns true and the message is of the matching case.
C10_MsgFromShapeFrame ==
    (op = "toMsg") =>
        IF shape.type \in {"SPHERE", "BOX", "CYLINDER", "CONE"}
        THEN ret /\ shape_msg.msg = "SolidPrimitive" /\ shape_msg.type = shape.type
        ELSE IF shape.type = "PLANE" THEN ret /\ shape_msg.msg = "Plane"
        ELSE IF shape.type = "MESH" THEN ret /\ shape_msg.msg = "Mesh"
        ELSE ~ret /\ shape_msg = old_msg

\* the call failed on an OcTree while the caller's message held a mesh
C10_Witness ==
    /\ op = "toMsg"
    /\ shape.type = "OCTREE"
    /\ ~ret
    /\ old_msg.msg = "Mesh"
    /\ shape_msg = old_msg

(***************************************************************************)
(* Properties of constructShapeFromMsg on a caller's message.              *)
(***************************************************************************)
\* the offsets each kind of solid primitive reads
offsetsOf(kind) ==
    IF kind = "SPHERE" THEN {0}
    ELSE IF kind = "BOX" THEN {0, 1, 2}
    ELSE IF kind \in {"CYLINDER", "CONE"} THEN {0, 1}
    ELSE {}

\* the doubles a primitive shape holds
fieldsOf(s) ==
    IF s.type = "SPHERE" THEN <<s.radius>>
    ELSE IF s.type = "BOX" THEN s.size
    ELSE <<s.radius, s.length>>

\* C11: constructShapeFromMsg on a SolidPrimitive message returns a shape
\* exactly when the kind is SPHERE, BOX, CYLINDER or CONE and dimensions
\* holds every offset that kind reads; otherwise it returns NULL.  The shape
\* is of the message's kind, its fields are the dimensions at those offsets
\* (the radius of a cylinder or cone at CYLINDER_RADIUS / CONE_RADIUS, its
\* length at CYLINDER_HEIGHT / CONE_HEIGHT), and dimensions beyond them
\* change nothing.
C11_SolidPrimitiveDims ==
    (op = "fromMsg" /\ shape_msg.msg = "SolidPrimitive") =>
        LET kind == shape_msg.type
            dims == shape_msg.dimensions
            enough == /\ kind \in {"SPHERE", "BOX", "CYLINDER", "CONE"}
                      /\ \A o \in offsetsOf(kind) : Len(dims) > o
        IN /\ (result # NULL) <=> enough
           /\ enough =>
                 /\ result.type = kind
                 /\ {fieldsOf(result)[i] : i \in 1..Len(fieldsOf(result))}
                        = {dims[o + 1] : o \in offsetsOf(kind)}
                 /\ kind = "SPHERE" => result.radius = dims[1]
                 /\ kind = "BOX" => result.size = <<dims[1], dims[2], dims[3]>>
                 /\ kind = "CYLINDER" =>
                        /\ result.radius = dims[CYLINDER_RADIUS + 1]
                        /\ result.length = dims[CYLINDER_HEIGHT + 1]
                 /\ kind = "CONE" =>
                        /\ result.radius = dims[CONE_RADIUS + 1]
                        /\ result.length = dims[CONE_HEIGHT + 1]
                 /\ result = constructShapeFromMsg(
                        [shape_msg EXCEPT !.dimensions =
                            SubSeq(dims, 1, Cardinality(offsetsOf(kind)))])

\* a cylinder message with two dimensions too many and unequal radius and
\* height has given a cylinder
C11_Witness ==
    /\ op = "fromMsg"
    /\ shape_msg.msg = "SolidPrimitive"
    /\ shape_msg.type = "CYLINDER"
    /\ Len(shape_msg.dimensions) = 4
    /\ shape_msg.dimensions[1] # shape_msg.dimensions[2]
    /\ result.type = "CYLINDER"

\* a box message with two dimensions has been refused
C11_WitnessShort ==
    /\ op = "fromMsg"
    /\ shape_msg.msg = "SolidPrimitive"
    /\ shape_msg.type = "BOX"
    /\ Len(shape_msg.dimensions) = 2
    /\ result = NULL

\* C12: constructShapeFromMsg on a mesh message returns NULL when vertices
\* or triangles is empty; otherwise a Mesh of len(vertices) vertices and
\* len(triangles) triangles whose flat arrays are the message's points and
\* index triples in the message's order, nothing merged or moved.
C12_MeshMsgVerbatim ==
    (op \in {"fromMsg", "backFromMsg"} /\ shape_msg.msg = "Mesh") =>
        LET vs == shape_msg.vertices
            ts == shape_msg.triangles
        IN IF vs = <<>> \/ ts = <<>> THEN result = NULL
           ELSE /\ result.type = "MESH"
                /\ result.vertex_count = Len(vs)
                /\ result.triangle_count = Len(ts)
                /\ Len(result.vertices) = 3 * Len(vs)
                /\ Len(result.triangles) = 3 * Len(ts)
                /\ \A i \in 1..Len(vs) : vertexAt(result, i - 1) = vs[i]
                /\ \A i \in 1..Len(ts) : \A k \in 1..3 :
                      result.triangles[3 * (i - 1) + k] = ts[i][k]

\* a message with the same point twice and a triangle whose indices are
\* not in ascending order has given a mesh
C12_Witness ==
    /\ op = "fromMsg"
    /\ shape_msg.msg = "Mesh"
    /\ Len(shape_msg.vertices) = 2
    /\ shape_msg.vertices[1] = shape_msg.vertices[2]
    /\ Len(shape_msg.triangles) = 1
    /\ shape_msg.triangles[1][1] > shape_msg.triangles[1][3]
    /\ result.type = "MESH"
    /\ result.vertex_count = 2

\* a message with a vertex and no triangle has been refused
C12_WitnessEmpty ==
    /\ op = "fromMsg"
    /\ shape_msg.msg = "Mesh"
    /\ shape_msg.vertices # <<>>
    /\ shape_msg.triangles = <<>>
    /\ result = NULL

(***************************************************************************)
(* Properties of computeShapeExtents.                                      *)
(***************************************************************************)
\* C13: computeShapeExtents on a plane message returns (0, 0, 0) whatever
\* the four coefficients are, and computeShapeExtents on a Plane shape
\* returns the same (0, 0, 0).
C13_PlaneExtents ==
    /\ (op = "extentsMsg" /\ shape_msg.msg = "Plane") => extents = <<0, 0, 0>>
    /\ (op = "extents" /\ shape.type = "PLANE") => extents = <<0, 0, 0>>

\* the extents of a Plane shape with no zero coefficient have been computed
C13_Witness ==
    /\ op = "extents"
    /\ shape.type = "PLANE"
    /\ shape.a # 0 /\ shape.b # 0 /\ shape.c # 0 /\ shape.d # 0
    /\ extents = <<0, 0, 0>>

\* the extents of a plane message with no zero coefficient have been
\* computed
C13_WitnessMsg ==
    /\ op = "extentsMsg"
    /\ shape_msg.msg = "Plane"
    /\ \A k \in 1..4 : shape_msg.coef[k] # 0
    /\ extents = <<0, 0, 0>>

(***************************************************************************)
(* Properties of constructMarkerFromShape.                                 *)
(***************************************************************************)
\* C14: no exception leaves constructMarkerFromShape.  For a Plane the
\* visitor's exception is caught and the call returns false; for a shape
\* constructMsgFromShape rejects (OCTREE, unrecognized type) it returns false
\* and the visitor is never applied; it returns true only when the
\* conversion to a message succeeded and the visitor ended normally.
C14_MarkerNoThrow ==
    (op = "marker") =>
        /\ marker.returned
        /\ (shape.type = "PLANE") => (marker.visited /\ ~marker.value)
        /\ (shape.type \notin SupportedTypes) => (~marker.visited /\ ~marker.value)
        /\ marker.value =>
              /\ constructMsgFromShape(shape, DefaultShapeMsg).ok
              /\ marker.visited
              /\ marker.completed

\* the call on a Plane has returned false after the visitor threw
C14_Witness ==
    /\ op = "marker"
    /\ shape.type = "PLANE"
    /\ marker.returned
    /\ marker.visited
    /\ ~marker.completed
    /\ ~marker.value

\* the call on an OcTree has returned false without a visit
C14_WitnessRejected ==
    /\ op = "marker"
    /\ shape.type = "OCTREE"
    /\ marker.returned
    /\ ~marker.visited
    /\ ~marker.value

\* the call on a mesh has returned true
C14_WitnessTrue ==
    /\ op = "marker"
    /\ shape.type = "MESH"
    /\ marker.returned
    /\ marker.value

=============================================================================
